---- MODULE Spec2Model ----
(***************************************************************************)
(* CasHandler (synapse/handlers/cas_handler.py): validation of a CAS       *)
(* ticket, parsing of the proxyValidate response, the required-attribute   *)
(* policy, the mapping of the CAS user to a Matrix user and the dispatch   *)
(* to one of the two completion paths.                                     *)
(*                                                                         *)
(* Strings the code inspects by characters (XML tags, usernames, user ids) *)
(* are sequences of tokens; a token is one character or one word that the  *)
(* code only ever treats as a whole.  Opaque strings are TLA+ strings.     *)
(***************************************************************************)
EXTENDS Integers, Sequences, FiniteSets, TLC

VARIABLES
    pc,         \* where the request is: idle, get_raw, get_mxid_from_sso, dispatch, done
    config,     \* hs.config and hs.hostname as read by __init__
    request,    \* the arguments of handle_ticket
    args,       \* handle_ticket's local dict args, as pairs in insertion order
    body,       \* the body given to _parse_cas_response
    fetched,    \* how get_raw ended: "complete", "partial", "failed" or "no"
    parsed,     \* what _parse_cas_response returned or raised
    validated,  \* what _validate_ticket returned or raised
    mapping,    \* the progress of get_mxid_from_sso
    user_id,    \* handle_ticket's local user_id
    calls,      \* the calls made to the collaborators during this request
    result      \* how handle_ticket ended

vars == <<pc, config, request, args, body, fetched, parsed, validated, mapping,
          user_id, calls, result>>

\* Python strings are token sequences; None is the one value that is no string.
None == <<"None">>

\* Python truthiness of an Optional[str]: neither None nor "".
Truthy(s) == s # None /\ s # <<>>

----------------------------------------------------------------------------
\* Bounds of the model.

\* Most user elements under the first child of a response.
MaxUsers == 2
\* Most attribute elements under the attributes element of a response.
MaxAttrs == 2
\* Largest failure count the orchestrator passes to the attribute provider.
MaxFailures == 1
\* Most rows the identity store returns for one query.
MaxMatches == 2

----------------------------------------------------------------------------
\* Strings as token sequences.

\* str.endswith
EndsWith(s, suffix) ==
    /\ Len(s) >= Len(suffix)
    /\ SubSeq(s, Len(s) - Len(suffix) + 1, Len(s)) = suffix

\* the `in` operator for a one-character needle
Contains(s, ch) == \E i \in 1..Len(s) : s[i] = ch

\* Positions of ch in s, and the n-th of them (0 when there is none).
Positions(s, ch) == {i \in 1..Len(s) : s[i] = ch}

NthPosition(s, ch, n) ==
    IF Cardinality(Positions(s, ch)) < n THEN 0
    ELSE CHOOSE i \in Positions(s, ch) :
            Cardinality({j \in Positions(s, ch) : j < i}) = n - 1

\* s.split(ch)[1]: what lies between the first ch and the second ch (or the
\* end of s). Only used when ch occurs in s.
SplitSecond(s, ch) ==
    LET first == NthPosition(s, ch, 1)
        second == NthPosition(s, ch, 2)
        last == IF second = 0 THEN Len(s) ELSE second - 1
    IN SubSeq(s, first + 1, last)

\* A tag as ElementTree reports it: "{namespace}local" or "local".
InNamespace(local) == <<"{", "ns", "}">> \o local

----------------------------------------------------------------------------
\* CAS response bodies.

LoginError(msg) ==
    [kind |-> "LoginError", code |-> 401, msg |-> msg, errcode |-> "M_UNAUTHORIZED"]

UserTexts == {None, <<"A", "l">>, <<"b", "o">>}
AttributeTexts == {None, <<"eng">>, <<"sales">>}
AttributeTags == {InNamespace(<<"department">>), <<"displayName">>}
RootTags == { <<"serviceResponse">>, InNamespace(<<"serviceResponse">>),
              <<"x", "serviceResponse">>, <<"somethingElse">> }
FirstChildTags == { InNamespace(<<"authenticationSuccess">>),
                    <<"x", "authenticationSuccess">>,
                    InNamespace(<<"authenticationFailure">>) }

SeqsUpTo(S, n) == UNION {[1..k -> S] : k \in 0..n}

Element(tag, text, children) == [tag |-> tag, text |-> text, children |-> children]

UserElements == {Element(InNamespace(<<"user">>), t, <<>>) : t \in UserTexts}
AttributeElements == {Element(tag, t, <<>>) : tag \in AttributeTags, t \in AttributeTexts}
AttributesElements ==
    {Element(InNamespace(<<"attributes">>), None, as) : as \in SeqsUpTo(AttributeElements, MaxAttrs)}

\* The children of the first child: user elements, then at most one
\* attributes element.
FirstChildContents ==
    {us \o as : us \in SeqsUpTo(UserElements, MaxUsers),
                as \in {<<>>} \cup {<<a>> : a \in AttributesElements}}

\* A body that is not well-formed XML (ET.fromstring raises), or a document
\* with its root element.
Document(root) == [wellformed |-> TRUE, root |-> root]
Malformed == [wellformed |-> FALSE, root |-> Element(<<>>, None, <<>>)]

Bodies ==
    {Malformed}
    \cup {Document(Element(root, None, <<>>)) : root \in RootTags}
    \cup {Document(Element(root, None, <<Element(first, None, cs)>>)) :
            root \in RootTags, first \in FirstChildTags, cs \in FirstChildContents}

----------------------------------------------------------------------------
\* _parse_cas_response

\* attributes[tag] = attribute.text, for each attribute element in turn
RECURSIVE AddAttributes(_, _)
AddAttributes(attributes, elems) ==
    IF elems = <<>> THEN attributes
    ELSE LET attribute == Head(elems)
             tag == IF Contains(attribute.tag, "}")
                    THEN SplitSecond(attribute.tag, "}")
                    ELSE attribute.tag
             keys == DOMAIN attributes \cup {tag}
         IN AddAttributes(
                [k \in keys |-> IF k = tag THEN attribute.text ELSE attributes[k]],
                Tail(elems))

\* the loop over root[0]; acc is the pair of locals (user, attributes)
RECURSIVE ScanChildren(_, _)
ScanChildren(acc, children) ==
    IF children = <<>> THEN acc
    ELSE LET child == Head(children)
             user == IF EndsWith(child.tag, <<"user">>) THEN child.text ELSE acc.user
             attributes == IF EndsWith(child.tag, <<"attributes">>)
                           THEN AddAttributes(acc.attributes, child.children)
                           ELSE acc.attributes
         IN ScanChildren([user |-> user, attributes |-> attributes], Tail(children))

NoAttributes == [k \in {} |-> None]

_parse_cas_response(cas_response_body) ==
    IF ~cas_response_body.wellformed THEN LoginError("Invalid CAS response")
    ELSE LET root == cas_response_body.root IN
         IF ~EndsWith(root.tag, <<"serviceResponse">>)
         THEN LoginError("Invalid CAS response")
         ELSE IF root.children = <<>>
         THEN LoginError("Invalid CAS response")
         ELSE LET success == EndsWith(root.children[1].tag, <<"authenticationSuccess">>)
                  found == ScanChildren([user |-> None, attributes |-> NoAttributes],
                                        root.children[1].children)
              IN IF found.user = None THEN LoginError("Invalid CAS response")
                 ELSE IF ~success THEN LoginError("Unsuccessful CAS response")
                 ELSE [kind |-> "ok", user |-> found.user, attributes |-> found.attributes]

----------------------------------------------------------------------------
\* Configuration (read-only after construction).

\* cas_required_attributes: a dict, kept in its iteration order as pairs
\* <<name, expected value or None>>.
RequiredNames == {<<"department">>, <<"displayName">>}
RequiredValues == {None, <<"eng">>}
Policies ==
    {p \in SeqsUpTo(RequiredNames \X RequiredValues, Cardinality(RequiredNames)) :
        \A i, j \in 1..Len(p) : i # j => p[i][1] # p[j][1]}

Configs ==
    [hostname : {<<"hs">>},
     cas_server_url : {<<"https://cas">>},
     cas_service_url : {<<"https://hs">>},
     cas_displayname_attribute : {None, <<"displayName">>},
     cas_required_attributes : Policies]

----------------------------------------------------------------------------
\* _validate_ticket, from the parsed response on

\* dict.pop(key, None): the value removed and the dict that is left
Pop(d, key) ==
    IF key \in DOMAIN d
    THEN [value |-> d[key], rest |-> [k \in DOMAIN d \ {key} |-> d[k]]]
    ELSE [value |-> None, rest |-> d]

\* The loop leaving after its first entry.
RECURSIVE RequiredAttributesRaise_FirstEntryOnly(_, _)
RequiredAttributesRaise_FirstEntryOnly(attributes, required) ==
    IF required = <<>> THEN FALSE
    ELSE LET required_attribute == Head(required)[1]
             required_value == Head(required)[2]
         IN IF required_attribute \notin DOMAIN attributes THEN TRUE
            ELSE IF required_value # None
                    /\ required_value # attributes[required_attribute] THEN TRUE
            ELSE FALSE

\* the loop over _cas_required_attributes.items(): TRUE iff it raises
RECURSIVE RequiredAttributesRaise(_, _)
RequiredAttributesRaise(attributes, required) ==
    IF required = <<>> THEN FALSE
    ELSE LET required_attribute == Head(required)[1]
             required_value == Head(required)[2]
         IN IF required_attribute \notin DOMAIN attributes THEN TRUE
            ELSE IF required_value # None
                    /\ required_value # attributes[required_attribute] THEN TRUE
            ELSE RequiredAttributesRaise(attributes, Tail(required))

\* _validate_ticket once get_raw has delivered the body; response is what
\* self._parse_cas_response(body) returned or raised.
_validate_ticket(cfg, response) ==
    IF response.kind # "ok" THEN response
    ELSE LET popped == Pop(response.attributes, cfg.cas_displayname_attribute)
             displayname == popped.value
             attributes == popped.rest
         IN IF RequiredAttributesRaise(attributes, cfg.cas_required_attributes)
            THEN LoginError("Unauthorized")
            ELSE [kind |-> "ok", user |-> response.user, displayname |-> displayname]

----------------------------------------------------------------------------
\* _build_service_param

\* urllib.parse.urlencode of a dict kept as pairs: k=quote_plus(v) joined by &
RECURSIVE urlencode(_)
urlencode(pairs) ==
    IF pairs = <<>> THEN <<>>
    ELSE LET kv == Head(pairs)
             item == kv[1] \o <<"=", "quote_plus(">> \o kv[2] \o <<")">>
         IN IF Tail(pairs) = <<>> THEN item
            ELSE item \o <<"&">> \o urlencode(Tail(pairs))

_build_service_param(cfg, service_args) ==
    cfg.cas_service_url \o <<"/_matrix/client/r0/login/cas/ticket">> \o <<"?">>
        \o urlencode(service_args)

----------------------------------------------------------------------------
\* Usernames and user ids.

LowerChar(c) ==
    CASE c = "A" -> "a"
      [] c = "B" -> "b"
      [] c = "L" -> "l"
      [] c = "O" -> "o"
      [] OTHER -> c

Lower(s) == [i \in 1..Len(s) |-> LowerChar(s[i])]

map_username_to_mxid_localpart(username) == Lower(username)

\* UserID(localpart, domain).to_string()
UserID(localpart, domain) == <<"@">> \o localpart \o <<":">> \o domain

\* The user ids the homeserver may hold.
Localparts == {<<"A", "l">>, <<"a", "l">>, <<"a", "L">>, <<"b", "o">>, <<"B", "o">>}
MxIds == {UserID(l, <<"hs">>) : l \in Localparts}

\* get_users_by_id_case_insensitive: the rows that match, in the order of the
\* dict the store returns.
StoreResults(queried) ==
    {rows \in SeqsUpTo({m \in MxIds : Lower(m) = Lower(queried)}, MaxMatches) :
        \A i, j \in 1..Len(rows) : i # j => rows[i] # rows[j]}

\* The callback without its check of failures.
cas_response_to_user_attributes_IgnoringFailures(remote_user_id, display_name, failures) ==
    [kind |-> "ok", localpart |-> map_username_to_mxid_localpart(remote_user_id),
     display_name |-> display_name]

\* cas_response_to_user_attributes(failures)
cas_response_to_user_attributes(remote_user_id, display_name, failures) ==
    LET localpart == map_username_to_mxid_localpart(remote_user_id) IN
    IF failures # 0 THEN [kind |-> "RuntimeError"]
    ELSE [kind |-> "ok", localpart |-> localpart, display_name |-> display_name]

\* the id grandfather_existing_users asks the store about
CandidateUserId(cfg, remote_user_id) ==
    UserID(map_username_to_mxid_localpart(remote_user_id), cfg.hostname)

\* The lookup returning the last key instead of the first.
grandfather_existing_users_LastKey(users) ==
    IF users # <<>> THEN users[Len(users)] ELSE None

\* grandfather_existing_users(), given what the store returned
grandfather_existing_users(users) ==
    IF users # <<>> THEN users[1] ELSE None

----------------------------------------------------------------------------
\* The request handler.

Tickets == {<<"ST-1">>}
RedirectUrls == {None, <<>>, <<"https://client/cb">>}
Sessions == {None, <<>>, <<"s1">>}

Unset == [kind |-> "unset"]
NoRequest == [ticket |-> None, client_redirect_url |-> None, session |-> None]
NoMapping == [asked |-> FALSE, users |-> <<>>, grandfathered |-> None,
              failures |-> 0, attributes |-> Unset, ended |-> "no"]

Call(fn, a, b) == [fn |-> fn, a |-> a, b |-> b]

\* The state between two requests.
Idle ==
    /\ pc = "idle"
    /\ request = NoRequest
    /\ args = <<>>
    /\ body = Malformed
    /\ fetched = "no"
    /\ parsed = Unset
    /\ validated = Unset
    /\ mapping = NoMapping
    /\ user_id = None
    /\ calls = <<>>
    /\ result = Unset

Init == config \in Configs /\ Idle

\* handle_ticket up to the await of get_raw in _validate_ticket
HandleTicket(ticket, client_redirect_url, session) ==
    /\ pc = "idle"
    /\ request' = [ticket |-> ticket, client_redirect_url |-> client_redirect_url,
                   session |-> session]
    /\ args' = (IF Truthy(client_redirect_url)
                THEN << <<<<"redirectUrl">>, client_redirect_url>> >> ELSE <<>>)
               \o (IF Truthy(session)
                   THEN << <<<<"session">>, session>> >> ELSE <<>>)
    /\ calls' = << Call("get_raw", config.cas_server_url \o <<"/proxyValidate">>,
                        [ticket |-> ticket,
                         service |-> _build_service_param(config, args')]) >>
    /\ pc' = "get_raw"
    /\ UNCHANGED <<config, body, fetched, parsed, validated, mapping, user_id, result>>

\* What _parse_cas_response makes of the bodies get_raw may deliver.
ParsedBodies == {_parse_cas_response(b) : b \in Bodies}

\* handle_ticket going on to the mapping whatever _validate_ticket raised.
GetRawDelivers_ErrorsIgnored(response, how) ==
    /\ pc = "get_raw"
    /\ fetched' = how
    /\ parsed' = response
    /\ validated' = _validate_ticket(config, response)
    /\ calls' = Append(calls, Call("get_mxid_from_sso", <<"cas">>,
                                  IF validated'.kind = "ok" THEN validated'.user ELSE None))
    /\ pc' = "get_mxid_from_sso"
    /\ UNCHANGED <<config, request, args, body, mapping, user_id, result>>

\* get_raw returns the body ("complete"), or raises PartialDownloadError and
\* body = pde.response ("partial"); then _validate_ticket from the body on and
\* handle_ticket up to the await of get_mxid_from_sso
GetRawDelivers(response, how) ==
    /\ pc = "get_raw"
    /\ fetched' = how
    /\ parsed' = response
    /\ validated' = _validate_ticket(config, response)
    /\ IF validated'.kind = "ok"
       THEN /\ calls' = Append(calls, Call("get_mxid_from_sso", <<"cas">>, validated'.user))
            /\ pc' = "get_mxid_from_sso"
            /\ result' = result
       ELSE /\ calls' = calls
            /\ pc' = "done"
            /\ result' = validated'
    /\ UNCHANGED <<config, request, args, body, mapping, user_id>>

\* get_raw raises anything else, which nothing catches
GetRawFails ==
    /\ pc = "get_raw"
    /\ fetched' = "failed"
    /\ result' = [kind |-> "TransportError"]
    /\ pc' = "done"
    /\ UNCHANGED <<config, request, args, body, parsed, validated, mapping, user_id, calls>>

\* get_mxid_from_sso calls grandfather_existing_users
GrandfatherExistingUsers ==
    /\ pc = "get_mxid_from_sso"
    /\ ~mapping.asked
    /\ LET candidate == CandidateUserId(config, validated.user) IN
       \E users \in StoreResults(candidate) :
         /\ calls' = Append(calls, Call("get_users_by_id_case_insensitive", candidate, None))
         /\ mapping' = [mapping EXCEPT !.asked = TRUE, !.users = users,
                            !.grandfathered = grandfather_existing_users(users)]
    /\ UNCHANGED <<pc, config, request, args, body, fetched, parsed, validated, user_id, result>>

\* get_mxid_from_sso calls cas_response_to_user_attributes(failures); what the
\* callback raises ends the request
CasResponseToUserAttributes ==
    /\ pc = "get_mxid_from_sso"
    /\ mapping.failures <= MaxFailures
    /\ LET attributes == cas_response_to_user_attributes(
                             validated.user, validated.displayname, mapping.failures) IN
         /\ calls' = Append(calls, Call("cas_response_to_user_attributes",
                                        <<>>, <<mapping.failures>>))
         /\ mapping' = [mapping EXCEPT !.failures = @ + 1, !.attributes = attributes,
                            !.ended = IF attributes.kind = "ok" THEN @ ELSE attributes.kind]
         /\ IF attributes.kind = "ok"
            THEN UNCHANGED <<pc, result>>
            ELSE pc' = "done" /\ result' = attributes
    /\ UNCHANGED <<config, request, args, body, fetched, parsed, validated, user_id>>

\* get_mxid_from_sso returns a user id
GetMxidReturns ==
    /\ pc = "get_mxid_from_sso"
    /\ \E mxid \in MxIds : user_id' = mxid
    /\ mapping' = [mapping EXCEPT !.ended = "returned"]
    /\ pc' = "dispatch"
    /\ UNCHANGED <<config, request, args, body, fetched, parsed, validated, calls, result>>

\* handle_ticket without its except clause: the MappingException goes up.
GetMxidRaisesMappingException_NotCaught ==
    /\ pc = "get_mxid_from_sso"
    /\ mapping' = [mapping EXCEPT !.ended = "MappingException"]
    /\ result' = [kind |-> "MappingException"]
    /\ pc' = "done"
    /\ UNCHANGED <<config, request, args, body, fetched, parsed, validated, user_id, calls>>

\* get_mxid_from_sso raises MappingException; handle_ticket renders the error
GetMxidRaisesMappingException ==
    /\ pc = "get_mxid_from_sso"
    /\ mapping' = [mapping EXCEPT !.ended = "MappingException"]
    /\ calls' = Append(calls, Call("render_error", <<"mapping_error">>, None))
    /\ result' = [kind |-> "return"]
    /\ pc' = "done"
    /\ UNCHANGED <<config, request, args, body, fetched, parsed, validated, user_id>>

\* if session: complete_sso_ui_auth
CompleteSsoUiAuth ==
    /\ pc = "dispatch"
    /\ Truthy(request.session)
    /\ calls' = Append(calls, Call("complete_sso_ui_auth", user_id, request.session))
    /\ result' = [kind |-> "return"]
    /\ pc' = "done"
    /\ UNCHANGED <<config, request, args, body, fetched, parsed, validated, mapping, user_id>>

\* The dispatch without the assertion: complete_sso_login gets the missing URL.
AssertClientRedirectUrlFails_NoAssert ==
    /\ pc = "dispatch"
    /\ ~Truthy(request.session)
    /\ ~Truthy(request.client_redirect_url)
    /\ calls' = Append(calls, Call("complete_sso_login", user_id, request.client_redirect_url))
    /\ result' = [kind |-> "return"]
    /\ pc' = "done"
    /\ UNCHANGED <<config, request, args, body, fetched, parsed, validated, mapping, user_id>>

\* else: assert client_redirect_url fails
AssertClientRedirectUrlFails ==
    /\ pc = "dispatch"
    /\ ~Truthy(request.session)
    /\ ~Truthy(request.client_redirect_url)
    /\ result' = [kind |-> "AssertionError"]
    /\ pc' = "done"
    /\ UNCHANGED <<config, request, args, body, fetched, parsed, validated, mapping, user_id, calls>>

\* The dispatch taking the login branch whether or not there is a session.
CompleteSsoLogin_IgnoringSession ==
    /\ pc = "dispatch"
    /\ Truthy(request.client_redirect_url)
    /\ calls' = Append(calls, Call("complete_sso_login", user_id, request.client_redirect_url))
    /\ result' = [kind |-> "return"]
    /\ pc' = "done"
    /\ UNCHANGED <<config, request, args, body, fetched, parsed, validated, mapping, user_id>>

\* else: complete_sso_login
CompleteSsoLogin ==
    /\ pc = "dispatch"
    /\ ~Truthy(request.session)
    /\ Truthy(request.client_redirect_url)
    /\ calls' = Append(calls, Call("complete_sso_login", user_id, request.client_redirect_url))
    /\ result' = [kind |-> "return"]
    /\ pc' = "done"
    /\ UNCHANGED <<config, request, args, body, fetched, parsed, validated, mapping, user_id>>

\* The request is over; the handler keeps nothing of it.
NextRequest ==
    /\ pc = "done"
    /\ pc' = "idle"
    /\ request' = NoRequest
    /\ args' = <<>>
    /\ fetched' = "no"
    /\ parsed' = Unset
    /\ validated' = Unset
    /\ mapping' = NoMapping
    /\ user_id' = None
    /\ calls' = <<>>
    /\ result' = Unset
    /\ UNCHANGED <<config, body>>

Next ==
    \/ \E t \in Tickets, u \in RedirectUrls, s \in Sessions : HandleTicket(t, u, s)
    \/ \E response \in ParsedBodies, how \in {"complete", "partial"} :
            GetRawDelivers(response, how)
    \/ GetRawFails
    \/ GrandfatherExistingUsers
    \/ CasResponseToUserAttributes
    \/ GetMxidReturns
    \/ GetMxidRaisesMappingException
    \/ CompleteSsoUiAuth
    \/ AssertClientRedirectUrlFails
    \/ CompleteSsoLogin
    \/ NextRequest

Spec == Init /\ [][Next]_vars

----------------------------------------------------------------------------
\* _parse_cas_response on its own: every body of Bodies, parsed once.

InitParse ==
    /\ config \in {c \in Configs : c.cas_required_attributes = <<>>
                                   /\ c.cas_displayname_attribute = None}
    /\ pc = "parse"
    /\ body \in Bodies
    /\ request = NoRequest
    /\ args = <<>>
    /\ fetched = "no"
    /\ parsed = Unset
    /\ validated = Unset
    /\ mapping = NoMapping
    /\ user_id = None
    /\ calls = <<>>
    /\ result = Unset

ParseCasResponse ==
    /\ pc = "parse"
    /\ parsed' = _parse_cas_response(body)
    /\ pc' = "parsed"
    /\ UNCHANGED <<config, request, args, body, fetched, validated, mapping, user_id, calls, result>>

NextParse == ParseCasResponse

SpecParse == InitParse /\ [][NextParse]_vars

----------------------------------------------------------------------------
\* Properties.

CallsTo(fn) == {i \in DOMAIN calls : calls[i].fn = fn}

Completions == CallsTo("complete_sso_ui_auth") \cup CallsTo("complete_sso_login")

\* The request ran to its end with the mapping having returned a user id.
Resolved == pc = "done" /\ mapping.ended = "returned"

\* C1: once the ticket validated and the mapping returned a user id (and a
\* redirectUrl came with every request that has no session), a request with a
\* session calls complete_sso_ui_auth exactly once, with that user id and that
\* session, and never complete_sso_login, also when a redirectUrl came too; a
\* request without a session calls complete_sso_login exactly once, with that
\* user id and the redirectUrl, and never complete_sso_ui_auth.
C1_DispatchBySession ==
    /\ Truthy(request.session) => CallsTo("complete_sso_login") = {}
    /\ ~Truthy(request.session) => CallsTo("complete_sso_ui_auth") = {}
    /\ (Resolved /\ Truthy(request.session)) =>
          /\ Cardinality(CallsTo("complete_sso_ui_auth")) = 1
          /\ \A i \in CallsTo("complete_sso_ui_auth") :
                calls[i].a = user_id /\ calls[i].b = request.session
    /\ (Resolved /\ ~Truthy(request.session) /\ Truthy(request.client_redirect_url)) =>
          /\ Cardinality(CallsTo("complete_sso_login")) = 1
          /\ \A i \in CallsTo("complete_sso_login") :
                calls[i].a = user_id /\ calls[i].b = request.client_redirect_url

C1_Witness ==
    /\ Resolved
    /\ Truthy(request.session)
    /\ Truthy(request.client_redirect_url)
    /\ Cardinality(CallsTo("complete_sso_ui_auth")) = 1

\* A policy entry the attributes violate: its name is missing, or its
\* expected value is not None and differs from the value.
Violated(attributes, entry) ==
    \/ entry[1] \notin DOMAIN attributes
    \/ entry[2] # None /\ entry[2] # attributes[entry[1]]

Violates(attributes, required) ==
    \E i \in 1..Len(required) : Violated(attributes, required[i])

\* _validate_ticket got past the parser.
PolicyApplied == parsed # Unset /\ parsed.kind = "ok" /\ validated # Unset

Unauthorized == LoginError("Unauthorized")

\* C2: for a parsed response and a policy, if some required name is missing
\* from the response's attributes, or is there with a value other than the
\* non-null expected one, _validate_ticket raises the 401 Unauthorized
\* LoginError and returns nothing, wherever the entry stands in the policy;
\* and it raises only for an entry whose name the loop does not find or whose
\* non-null expected value differs, so that an entry expecting None turns
\* down no value, a null one included.
C2_RequiredAttributePolicy ==
    PolicyApplied =>
        /\ Violates(parsed.attributes, config.cas_required_attributes)
              => validated = Unauthorized
        /\ validated.kind # "ok" =>
              /\ validated = Unauthorized
              /\ Violates(Pop(parsed.attributes, config.cas_displayname_attribute).rest,
                          config.cas_required_attributes)

\* A policy of two entries whose second entry alone is violated.
C2_Witness ==
    /\ PolicyApplied
    /\ Len(config.cas_required_attributes) = 2
    /\ ~Violated(parsed.attributes, config.cas_required_attributes[1])
    /\ Violated(parsed.attributes, config.cas_required_attributes[2])
    /\ validated = Unauthorized

\* C3: the required attributes are checked against the attributes as parsed:
\* whenever these satisfy the policy, _validate_ticket returns the user and
\* the display name, also when the display-name attribute is itself required.
C3_PolicyOnParsedAttributes ==
    (PolicyApplied /\ ~Violates(parsed.attributes, config.cas_required_attributes)) =>
        /\ validated.kind = "ok"
        /\ validated.user = parsed.user
        /\ validated.displayname =
              Pop(parsed.attributes, config.cas_displayname_attribute).value

\* The local name of a tag: the tag without its "{namespace}".
LocalName(tag) ==
    IF tag # <<>> /\ tag[1] = "{" /\ Contains(tag, "}")
    THEN SubSeq(tag, NthPosition(tag, "}", 1) + 1, Len(tag))
    ELSE tag

\* The first child of the root is an authenticationSuccess element.
FirstChildIsSuccess(b) ==
    /\ b.wellformed
    /\ b.root.children # <<>>
    /\ LocalName(b.root.children[1].tag) = <<"authenticationSuccess">>

\* The user the loop over the first child is left with (None when there is
\* no first child to loop over).
UserFound(b) ==
    IF b.wellformed /\ b.root.children # <<>>
    THEN ScanChildren([user |-> None, attributes |-> NoAttributes],
                      b.root.children[1].children).user
    ELSE None

\* Without a user the error is "Invalid CAS response" whatever the status;
\* with a user and no success it is "Unsuccessful CAS response" (under a
\* root the parser takes); both are 401 errors.
ReportedCause ==
    pc = "parsed" =>
        /\ UserFound(body) = None => parsed = LoginError("Invalid CAS response")
        /\ ( /\ UserFound(body) # None
             /\ EndsWith(body.root.tag, <<"serviceResponse">>)
             /\ ~FirstChildIsSuccess(body)
             /\ parsed.kind # "ok" )
              => parsed = LoginError("Unsuccessful CAS response")
        /\ parsed.kind # "ok" => parsed.code = 401

\* C4: _parse_cas_response returns no user when the first child is not
\* authenticationSuccess, a user element or not; without a user the error is
\* "Invalid CAS response" whatever the status, with a user and no success it
\* is "Unsuccessful CAS response"; both are 401 errors.
C4_NoUserWithoutSuccess ==
    /\ (pc = "parsed" /\ ~FirstChildIsSuccess(body)) => parsed.kind = "LoginError"
    /\ ReportedCause

\* C5: _parse_cas_response returns a user only if the local name of the root
\* is exactly serviceResponse.
C5_RootIsServiceResponse ==
    (pc = "parsed" /\ parsed.kind = "ok") =>
        LocalName(body.root.tag) = <<"serviceResponse">>

\* C6: when get_mxid_from_sso raises MappingException the error page is
\* rendered exactly once, neither completion is called, whatever the session
\* and the redirectUrl, and handle_ticket returns.
C6_MappingExceptionRendersError ==
    /\ mapping.ended = "MappingException" =>
          /\ pc = "done"
          /\ result = [kind |-> "return"]
          /\ Cardinality(CallsTo("render_error")) = 1
          /\ Completions = {}
    /\ CallsTo("render_error") # {} => mapping.ended = "MappingException"

C6_Witness ==
    /\ mapping.ended = "MappingException"
    /\ Truthy(request.session)
    /\ Truthy(request.client_redirect_url)
    /\ CallsTo("render_error") # {}

\* The attribute provider has been called with a failure count above 0.
ProviderCalledAfterFailure ==
    \E i \in CallsTo("cas_response_to_user_attributes") : calls[i].b[1] > 0

\* C7: called with a failure count above 0 the attribute provider returns no
\* UserAttributes but raises an error that is no MappingException: no error
\* page, no completion, the request ends with that error; called with 0 it
\* returns the normalized localpart with the validated display name.
C7_AttributeProviderFailsHard ==
    /\ ProviderCalledAfterFailure =>
          /\ mapping.attributes.kind = "RuntimeError"
          /\ pc = "done"
          /\ result.kind = "RuntimeError"
          /\ CallsTo("render_error") = {}
          /\ Completions = {}
    /\ (CallsTo("cas_response_to_user_attributes") # {} /\ ~ProviderCalledAfterFailure) =>
          mapping.attributes =
              [kind |-> "ok",
               localpart |-> map_username_to_mxid_localpart(validated.user),
               display_name |-> validated.displayname]

C7_Witness ==
    /\ ProviderCalledAfterFailure
    /\ result.kind = "RuntimeError"

\* C8: the grandfather lookup asks the store once, about the id made of the
\* normalized username and the hostname; it returns the first key of what
\* the store returned, as stored, and None iff the store returned nothing.
C8_GrandfatherReturnsFirstStored ==
    /\ Cardinality(CallsTo("get_users_by_id_case_insensitive")) = (IF mapping.asked THEN 1 ELSE 0)
    /\ \A i \in CallsTo("get_users_by_id_case_insensitive") :
          calls[i].a = UserID(map_username_to_mxid_localpart(validated.user), config.hostname)
    /\ mapping.asked =>
          /\ (mapping.grandfathered = None) <=> (mapping.users = <<>>)
          /\ mapping.users # <<>> => mapping.grandfathered = mapping.users[1]

\* The store held two ids, and the first differs in case from the one asked about.
C8_Witness ==
    /\ mapping.asked
    /\ Len(mapping.users) = 2
    /\ mapping.grandfathered = mapping.users[1]
    /\ mapping.grandfathered # CandidateUserId(config, validated.user)

\* C9: validate, then map, then dispatch: get_mxid_from_sso is called only
\* after _validate_ticket returned a user, a completion only after
\* get_mxid_from_sso returned a user id and with that id; after a transport
\* error, an invalid or unsuccessful response or a violated policy there is
\* no mapping, no error page and no completion.
C9_ValidateMapDispatch ==
    /\ \A i \in CallsTo("get_mxid_from_sso") :
          /\ fetched \in {"complete", "partial"}
          /\ parsed.kind = "ok"
          /\ validated.kind = "ok"
          /\ calls[i].b = validated.user
          /\ \E j \in CallsTo("get_raw") : j < i
    /\ \A i \in Completions :
          /\ mapping.ended = "returned"
          /\ user_id # None
          /\ calls[i].a = user_id
          /\ \E j \in CallsTo("get_mxid_from_sso") : j < i
    /\ (fetched = "failed" \/ (validated # Unset /\ validated.kind # "ok")) =>
          /\ pc = "done"
          /\ CallsTo("get_mxid_from_sso") = {}
          /\ CallsTo("get_users_by_id_case_insensitive") = {}
          /\ CallsTo("cas_response_to_user_attributes") = {}
          /\ CallsTo("render_error") = {}
          /\ Completions = {}
          /\ result = (IF fetched = "failed" THEN [kind |-> "TransportError"] ELSE validated)

C9_Witness ==
    /\ Completions # {}
    /\ CallsTo("get_users_by_id_case_insensitive") # {}
    /\ fetched = "partial"

\* The service arguments handle_ticket builds from a redirectUrl alone.
ArgsOfRedirectUrl(url) ==
    IF Truthy(url) THEN << <<<<"redirectUrl">>, url>> >> ELSE <<>>

\* C10: complete_sso_login is never called without a redirect URL: a request
\* with neither session nor redirectUrl that validates and maps ends with the
\* failed assertion and no completion; an empty session counts as none, in
\* the service arguments and in the dispatch.
C10_NoLoginWithoutRedirectUrl ==
    /\ \A i \in CallsTo("complete_sso_login") : Truthy(calls[i].b)
    /\ (Resolved /\ ~Truthy(request.session) /\ ~Truthy(request.client_redirect_url)) =>
          /\ result = [kind |-> "AssertionError"]
          /\ Completions = {}
    /\ (pc # "idle" /\ ~Truthy(request.session)) =>
          /\ args = ArgsOfRedirectUrl(request.client_redirect_url)
          /\ CallsTo("complete_sso_ui_auth") = {}

C10_Witness ==
    /\ Resolved
    /\ request.session = <<>>
    /\ ~Truthy(request.client_redirect_url)
    /\ result = [kind |-> "AssertionError"]

====
